---- MODULE Spec2Model ----
(***************************************************************************)
(* Topic-to-video pipeline of main.py: the module-level start-up code, the *)
(* two calls of generate_video made by the script's entry point, and the   *)
(* stages each call runs.  The external services and the media library are *)
(* inputs: every call draws its outcome from a small set.                   *)
(***************************************************************************)
EXTENDS Naturals, Sequences, FiniteSets, TLC

VARIABLES
    env,          \* the two credentials after load_dotenv
    pc,           \* position of the process
    runNo,        \* calls of generate_video made so far
    now,          \* last reading of datetime.now(), in seconds
    dirs,         \* directories on disk
    files,        \* files on disk: path -> content
    topic,        \* generate_video: topic
    output_dir,   \* generate_video: output_dir
    content,      \* generate_video: content, <<>> until generate_script returns
    audio_path,   \* generate_video: audio_path, <<>> until generate_audio returns
    frames,       \* generate_video_frames: frames
    idx,          \* generate_video_frames: the loop's i
    gv_frames,    \* generate_video: frames, <<>> until generate_video_frames returns
    exc,          \* exception propagating out of generate_video, "" when none
    result,       \* value returned by generate_video, <<>> until it returns
    open,         \* create_video: media resources currently open
    opened,       \* create_video: media resources it has opened (history)
    started,      \* stages started in this run, in order (history)
    finished,     \* stages that returned normally in this run (history)
    raisedBy,     \* <<stage, exception>> of the stage that raised (history)
    requested,    \* scene indices sent to the image service in this run (history)
    outcomes,     \* image service outcome per scene of this run (history)
    infoWrites,   \* writes of project_info.json in this run (history)
    written,      \* paths this run has written to (history)
    response,     \* the completion service's reply in this run (history)
    dirLog        \* output directory obtained by each run (history)

vars == <<env, pc, runNo, now, dirs, files, topic, output_dir, content,
          audio_path, frames, idx, gv_frames, exc, result, open, opened,
          started, finished, raisedBy, requested, outcomes, infoWrites,
          written, response, dirLog>>

-----------------------------------------------------------------------------
(* Bounds and program constants *)

MaxClock == 1
MaxScenes == 2
RunsPerProcess == 2
PromptMaxChars == 1000

None == << >>
Some(v) == <<v>>

CredentialValues == {"absent", "empty", "set"}

Alnum == {"a", "b"}
Topics == { <<"a">>, <<"a", " ">>, <<"!", "b">> }

SceneDescs == {"s1", "s2"}
SceneLists == UNION { [1..n -> SceneDescs] : n \in 0..MaxScenes }
ScriptLens == {PromptMaxChars, PromptMaxChars + 1}

-----------------------------------------------------------------------------
(* create_output_directory *)

IsSafeChar(c) == c \in Alnum \/ c \in {" ", "-", "_"}

RECURSIVE RStrip(_)
RStrip(s) ==
    IF s # << >> /\ s[Len(s)] = " " THEN RStrip(SubSeq(s, 1, Len(s) - 1)) ELSE s

SafeTopic(t) == RStrip(SelectSeq(t, IsSafeChar))

ProjectDir(timestamp, t) == <<timestamp, SafeTopic(t)>>

DirPath(d) == <<d, ".">>
FramesDir(d) == <<d, "frames">>
InfoPath(d) == <<d, "project_info.json">>
NarrationPath(d) == <<d, "narration.mp3">>
FinalVideoPath(d) == <<d, "final_video.mp4">>
\* mutant: frames numbered from 1, as the log lines number them
FramePathFromOne(d, i) == <<d, "frames", i + 1>>

FramePath(d, i) == <<d, "frames", i>>

WriteFile(fs, path, data) == (path :> data) @@ fs

-----------------------------------------------------------------------------
(* Start-up: module-level credential checks *)

\* mutant: a test for None only, which an empty value passes
MissingWhenAbsent(v) == v = "absent"

\* not api_key: None and the empty string are both missing
Missing(v) == v # "set"

Startup ==
    /\ pc = "boot"
    /\ IF Missing(env.OPENAI_API_KEY) \/ Missing(env.REPLICATE_API_TOKEN)
       THEN pc' = "crashed" /\ exc' = "ValueError"
       ELSE pc' = "ready" /\ exc' = exc
    /\ UNCHANGED <<env, runNo, now, dirs, files, topic, output_dir, content,
                   audio_path, frames, idx, gv_frames, result, open, opened,
                   started, finished, raisedBy, requested, outcomes,
                   infoWrites, response, dirLog, written>>

-----------------------------------------------------------------------------
(* generate_video: sequencing and error propagation *)

\* mutant: frames generated before the audio
NextStageFramesFirst(stage) ==
    CASE stage = "create_output_directory" -> "generate_script"
      [] stage = "generate_script"         -> "save_project_info"
      [] stage = "save_project_info"       -> "generate_video_frames"
      [] stage = "generate_video_frames"   -> "generate_audio"
      [] stage = "generate_audio"          -> "create_video"
      [] stage = "create_video"            -> "returned"

NextStage(stage) ==
    CASE stage = "create_output_directory" -> "generate_script"
      [] stage = "generate_script"         -> "save_project_info"
      [] stage = "save_project_info"       -> "generate_audio"
      [] stage = "generate_audio"          -> "generate_video_frames"
      [] stage = "generate_video_frames"   -> "create_video"
      [] stage = "create_video"            -> "returned"

\* mutant: the handler raises a translated error
ReraiseWrapped(e) == "GenerationError"

\* except Exception as e: log, then a bare raise
Reraise(e) == e

\* a call of generate_video(topic); its first statement is
\* create_output_directory(topic), outside the try block
CallGenerateVideo ==
    /\ \/ pc = "ready" /\ runNo = 0
       \/ pc = "returned" /\ runNo < RunsPerProcess
    /\ \E t \in Topics, timestamp \in now..MaxClock :
         LET d == ProjectDir(timestamp, t) IN
         /\ topic' = t
         /\ now' = timestamp
         /\ dirs' = dirs \cup {DirPath(d)}
         /\ output_dir' = Some(d)
         /\ dirLog' = Append(dirLog, d)
    /\ runNo' = runNo + 1
    /\ pc' = NextStage("create_output_directory")
    /\ started' = <<"create_output_directory">>
    /\ finished' = <<"create_output_directory">>
    /\ content' = None
    /\ audio_path' = None
    /\ frames' = << >>
    /\ idx' = 0
    /\ gv_frames' = None
    /\ result' = None
    /\ open' = {}
    /\ opened' = {}
    /\ raisedBy' = None
    /\ requested' = {}
    /\ outcomes' = << >>
    /\ infoWrites' = 0
    /\ written' = {}
    /\ response' = None
    /\ UNCHANGED <<env, files, exc>>

-----------------------------------------------------------------------------
(* generate_script *)

JsonKeys == {"script", "scenes"}

JsonObject(keys, n, sc) == [k \in keys |-> IF k = "script" THEN n ELSE sc]

WellFormed ==
    { [kind |-> "json", obj |-> JsonObject(JsonKeys, n, sc)] :
        n \in ScriptLens, sc \in SceneLists }

Malformed ==
    { [kind |-> "json", obj |-> JsonObject(keys, PromptMaxChars, <<"s1">>)] :
        keys \in (SUBSET JsonKeys) \ {JsonKeys} }
    \cup { [kind |-> "text", obj |-> << >>] }

ServiceError == [kind |-> "error", obj |-> << >>]

Responses == WellFormed \cup Malformed \cup {ServiceError}

\* mutant: the two log lines that index content are absent
GenerateScriptUnchecked(resp) ==
    IF resp.kind = "error" THEN [exc |-> "APIError", value |-> None]
    ELSE IF resp.kind = "text" THEN [exc |-> "JSONDecodeError", value |-> None]
    ELSE [exc |-> "", value |-> Some(resp.obj)]

GenerateScriptResult(resp) ==
    IF resp.kind = "error" THEN [exc |-> "APIError", value |-> None]
    ELSE IF resp.kind = "text" THEN [exc |-> "JSONDecodeError", value |-> None]
    ELSE IF "script" \notin DOMAIN resp.obj THEN [exc |-> "KeyError", value |-> None]
    ELSE IF "scenes" \notin DOMAIN resp.obj THEN [exc |-> "KeyError", value |-> None]
    ELSE [exc |-> "", value |-> Some(resp.obj)]

\* content = generate_script(topic); script = content["script"];
\* scenes = content["scenes"]
GenerateScript ==
    /\ pc = "generate_script"
    /\ \E resp \in Responses :
         LET r == GenerateScriptResult(resp) IN
         /\ response' = Some(resp)
         /\ started' = Append(started, "generate_script")
         /\ IF r.exc # ""
            THEN /\ pc' = "raised"
                 /\ exc' = Reraise(Reraise(r.exc))
                 /\ raisedBy' = Some(<<"generate_script", r.exc>>)
                 /\ UNCHANGED <<content, finished>>
            ELSE IF JsonKeys \subseteq DOMAIN r.value[1]
            THEN /\ pc' = NextStage("generate_script")
                 /\ content' = r.value
                 /\ finished' = Append(finished, "generate_script")
                 /\ UNCHANGED <<exc, raisedBy>>
            ELSE /\ pc' = "raised"
                 /\ exc' = Reraise("KeyError")
                 /\ raisedBy' = Some(<<"generate_video", "KeyError">>)
                 /\ finished' = Append(finished, "generate_script")
                 /\ UNCHANGED content
    /\ UNCHANGED <<env, runNo, now, dirs, files, topic, output_dir, audio_path,
                   frames, idx, gv_frames, result, open, opened, requested,
                   outcomes, infoWrites, dirLog, written>>

Script == content[1].script
Scenes == content[1].scenes

-----------------------------------------------------------------------------
(* save_project_info *)

\* mutant: the scenes are left out of the record
InfoRecordNoScenes(t, timestamp, script, scenes) ==
    <<"info", t, timestamp, script, << >> >>

InfoRecord(t, timestamp, script, scenes) ==
    <<"info", t, timestamp, script, scenes>>

SaveProjectInfo ==
    /\ pc = "save_project_info"
    /\ started' = Append(started, "save_project_info")
    /\ \E timestamp \in now..MaxClock, failure \in {"none", "open", "dump"} :
         LET path == InfoPath(output_dir[1]) IN
         /\ now' = timestamp
         /\ CASE failure = "none" ->
                   /\ files' = WriteFile(files, path,
                                         InfoRecord(topic, timestamp, Script, Scenes))
                   /\ infoWrites' = infoWrites + 1
                   /\ written' = written \cup {path}
                   /\ pc' = NextStage("save_project_info")
                   /\ finished' = Append(finished, "save_project_info")
                   /\ UNCHANGED <<exc, raisedBy>>
              [] failure = "open" ->
                   /\ pc' = "raised"
                   /\ exc' = Reraise("OSError")
                   /\ raisedBy' = Some(<<"save_project_info", "OSError">>)
                   /\ UNCHANGED <<files, infoWrites, written, finished>>
              [] failure = "dump" ->
                   /\ files' = WriteFile(files, path, <<"truncated">>)
                   /\ written' = written \cup {path}
                   /\ pc' = "raised"
                   /\ exc' = Reraise("OSError")
                   /\ raisedBy' = Some(<<"save_project_info", "OSError">>)
                   /\ UNCHANGED <<infoWrites, finished>>
    /\ UNCHANGED <<env, runNo, dirs, topic, output_dir, content, audio_path,
                   frames, idx, gv_frames, result, open, opened, requested,
                   outcomes, response, dirLog>>

-----------------------------------------------------------------------------
(* generate_audio *)

GenerateAudio ==
    /\ pc = "generate_audio"
    /\ started' = Append(started, "generate_audio")
    /\ \E outcome \in {"ok", "speech_error", "stream_error"} :
         LET output_path == NarrationPath(output_dir[1]) IN
         CASE outcome = "ok" ->
                /\ files' = WriteFile(files, output_path, <<"audio", Script>>)
                /\ written' = written \cup {output_path}
                /\ audio_path' = Some(output_path)
                /\ pc' = NextStage("generate_audio")
                /\ finished' = Append(finished, "generate_audio")
                /\ UNCHANGED <<exc, raisedBy>>
           [] outcome = "speech_error" ->
                /\ pc' = "raised"
                /\ exc' = Reraise(Reraise("APIError"))
                /\ raisedBy' = Some(<<"generate_audio", "APIError">>)
                /\ UNCHANGED <<files, written, audio_path, finished>>
           [] outcome = "stream_error" ->
                /\ files' = WriteFile(files, output_path, <<"truncated">>)
                /\ written' = written \cup {output_path}
                /\ pc' = "raised"
                /\ exc' = Reraise(Reraise("OSError"))
                /\ raisedBy' = Some(<<"generate_audio", "OSError">>)
                /\ UNCHANGED <<audio_path, finished>>
    /\ UNCHANGED <<env, runNo, now, dirs, topic, output_dir, content, frames,
                   idx, gv_frames, result, open, opened, requested, outcomes,
                   infoWrites, response, dirLog>>

(* generate_video_frames *)

FrameOutcomes == {"ok", "run_error", "get_error", "write_error"}

\* response.content of the download of output[0], the image for the prompt
Downloaded(scene) == <<"image", scene>>

\* mutant: the path is appended before the image is fetched
FramesAfterAlways(fr, output_path, outcome) == Append(fr, output_path)

\* frames.append(output_path) is reached only when nothing raised before it
FramesAfter(fr, output_path, outcome) ==
    IF outcome = "ok" THEN Append(fr, output_path) ELSE fr

FrameException(outcome) ==
    CASE outcome = "run_error"   -> "ReplicateError"
      [] outcome = "get_error"   -> "ConnectionError"
      [] outcome = "write_error" -> "OSError"
      [] OTHER                   -> ""

FramesBegin ==
    /\ pc = "generate_video_frames"
    /\ started' = Append(started, "generate_video_frames")
    /\ frames' = << >>
    /\ idx' = 0
    /\ dirs' = dirs \cup {FramesDir(output_dir[1])}
    /\ pc' = "frames_loop"
    /\ UNCHANGED <<env, runNo, now, files, topic, output_dir, content,
                   audio_path, gv_frames, exc, result, open, opened, finished,
                   raisedBy, requested, outcomes, infoWrites, response, dirLog, written>>

\* one iteration of the loop over enumerate(scenes)
FrameStep ==
    /\ pc = "frames_loop"
    /\ idx < Len(Scenes)
    /\ \E outcome \in FrameOutcomes :
         LET scene == Scenes[idx + 1]
             output_path == FramePath(output_dir[1], idx)
         IN
         /\ requested' = requested \cup {idx}
         /\ outcomes' = Append(outcomes, outcome)
         /\ frames' = FramesAfter(frames, output_path, outcome)
         /\ files' = CASE outcome = "ok" ->
                            WriteFile(files, output_path, Downloaded(scene))
                       [] outcome = "write_error" ->
                            WriteFile(files, output_path, <<"truncated">>)
                       [] OTHER -> files
         /\ written' = IF outcome \in {"ok", "write_error"}
                       THEN written \cup {output_path} ELSE written
         /\ IF FrameException(outcome) = ""
            THEN /\ idx' = idx + 1
                 /\ UNCHANGED <<pc, exc, raisedBy>>
            ELSE /\ pc' = "raised"
                 /\ exc' = Reraise(Reraise(FrameException(outcome)))
                 /\ raisedBy' = Some(<<"generate_video_frames", FrameException(outcome)>>)
                 /\ UNCHANGED idx
    /\ UNCHANGED <<env, runNo, now, dirs, topic, output_dir, content,
                   audio_path, gv_frames, result, open, opened, started,
                   finished, infoWrites, response, dirLog>>

\* return frames, bound to generate_video's frames
FramesReturn ==
    /\ pc = "frames_loop"
    /\ idx = Len(Scenes)
    /\ gv_frames' = Some(frames)
    /\ finished' = Append(finished, "generate_video_frames")
    /\ pc' = NextStage("generate_video_frames")
    /\ UNCHANGED <<env, runNo, now, dirs, files, topic, output_dir, content,
                   audio_path, frames, idx, exc, result, open, opened, started,
                   raisedBy, requested, outcomes, infoWrites, response, dirLog, written>>

-----------------------------------------------------------------------------
(* create_video *)

ClipHandles(k) == { <<"clip", j>> : j \in 1..k }
VideoHandle == <<"video", 0>>
AudioHandle == <<"audio", 0>>

\* point at which create_video raises, 0 when it does not: clip k is
\* k in 1..n, then concatenation, the audio track, the encoding;
\* concatenate_videoclips raises on an empty list of clips
FailurePoints(n) == IF n = 0 THEN {1} ELSE 0..(n + 3)

OpenedUpTo(n, failAt) ==
    IF failAt = 0 \/ failAt = n + 3
    THEN ClipHandles(n) \cup {VideoHandle, AudioHandle}
    ELSE IF failAt = n + 2 THEN ClipHandles(n) \cup {VideoHandle}
    ELSE IF failAt = n + 1 THEN ClipHandles(n)
    ELSE ClipHandles(failAt - 1)

\* video.close() and audio.close(); whether closing the concatenation also
\* closes the clips it was made from is the media library's choice
Closed(n, cascade) ==
    {VideoHandle, AudioHandle} \cup (IF cascade THEN ClipHandles(n) ELSE {})

CreateVideoException(n, failAt) ==
    IF failAt = 0 THEN ""
    ELSE IF failAt = n + 3 THEN "EncodingError"
    ELSE IF failAt = n + 1 THEN "ValueError"
    ELSE "OSError"

CreateVideo ==
    /\ pc = "create_video"
    /\ started' = Append(started, "create_video")
    /\ LET fr == gv_frames[1]
           n == Len(fr)
           output_path == FinalVideoPath(output_dir[1])
       IN
       \E failAt \in FailurePoints(n), cascade \in BOOLEAN, partial \in BOOLEAN :
         /\ opened' = OpenedUpTo(n, failAt)
         /\ IF failAt = 0
            THEN /\ open' = OpenedUpTo(n, failAt) \ Closed(n, cascade)
                 /\ files' = WriteFile(files, output_path,
                                <<"video", [j \in 1..n |-> files[fr[j]]],
                                  files[audio_path[1]]>>)
                 /\ written' = written \cup {output_path}
                 /\ finished' = Append(finished, "create_video")
                 /\ result' = Some(output_path)
                 /\ pc' = NextStage("create_video")
                 /\ UNCHANGED <<exc, raisedBy>>
            ELSE /\ open' = OpenedUpTo(n, failAt)
                 /\ cascade = FALSE
                 /\ files' = IF failAt = n + 3 /\ partial
                             THEN WriteFile(files, output_path, <<"truncated">>)
                             ELSE files
                 /\ written' = IF failAt = n + 3 /\ partial
                               THEN written \cup {output_path} ELSE written
                 /\ failAt = n + 3 \/ partial = FALSE
                 /\ pc' = "raised"
                 /\ exc' = Reraise(Reraise(CreateVideoException(n, failAt)))
                 /\ raisedBy' = Some(<<"create_video", CreateVideoException(n, failAt)>>)
                 /\ UNCHANGED <<finished, result>>
    /\ UNCHANGED <<env, runNo, now, dirs, topic, output_dir, content,
                   audio_path, frames, idx, gv_frames, requested,
                   outcomes, infoWrites, response, dirLog>>

-----------------------------------------------------------------------------
Init ==
    /\ env \in [OPENAI_API_KEY : CredentialValues, REPLICATE_API_TOKEN : CredentialValues]
    /\ pc = "boot"
    /\ runNo = 0
    /\ now = 0
    /\ dirs = {}
    /\ files = << >>
    /\ topic = << >>
    /\ output_dir = None
    /\ content = None
    /\ audio_path = None
    /\ frames = << >>
    /\ idx = 0
    /\ gv_frames = None
    /\ exc = ""
    /\ result = None
    /\ open = {}
    /\ opened = {}
    /\ started = << >>
    /\ finished = << >>
    /\ raisedBy = None
    /\ requested = {}
    /\ outcomes = << >>
    /\ infoWrites = 0
    /\ written = {}
    /\ response = None
    /\ dirLog = << >>

Next ==
    \/ Startup
    \/ CallGenerateVideo
    \/ GenerateScript
    \/ SaveProjectInfo
    \/ GenerateAudio
    \/ FramesBegin
    \/ FrameStep
    \/ FramesReturn
    \/ CreateVideo

Spec == Init /\ [][Next]_vars

-----------------------------------------------------------------------------
(* Properties *)

StageOrder ==
    <<"create_output_directory", "generate_script", "save_project_info",
      "generate_audio", "generate_video_frames", "create_video">>

IsPrefix(s, t) == Len(s) <= Len(t) /\ \A i \in 1..Len(s) : s[i] = t[i]

InSeq(x, s) == \E i \in 1..Len(s) : s[i] = x

RunFinished == pc \in {"returned", "raised"}

\* C1: the stages of a run start in the fixed order create_output_directory,
\* generate_script, save_project_info, generate_audio, generate_video_frames,
\* create_video; a stage starts only when every stage before it has returned
\* normally; no scene is sent to the image service before generate_audio has
\* returned.
C1_StagesInOrder ==
    /\ IsPrefix(started, StageOrder)
    /\ IsPrefix(finished, started)
    /\ Len(started) <= Len(finished) + 1
    /\ requested # {} => InSeq("generate_audio", finished)
    /\ InSeq("generate_video_frames", started) => InSeq("generate_audio", finished)

C1_Witness ==
    /\ pc = "returned"
    /\ started = StageOrder
    /\ finished = StageOrder
    /\ requested = {0, 1}

\* C2: once a stage of a run has raised, the stage that raised is the last one
\* started, generate_video propagates that very exception and has returned no
\* output path; no step deletes a file, and a new run starts again from its
\* first stage with nothing carried over.
C2_FailureIsFatal ==
    /\ [](/\ pc = "raised" <=> raisedBy # None
          /\ raisedBy # None =>
               /\ started[Len(started)] = raisedBy[1][1]
               /\ ~InSeq(raisedBy[1][1], finished)
               /\ exc = raisedBy[1][2]
               /\ result = None)
    /\ [][/\ \A p \in DOMAIN files : p \in DOMAIN files'
          /\ dirs \subseteq dirs'
          /\ pc = "raised" => pc' = "raised"
          /\ runNo' # runNo =>
               /\ started' = <<"create_output_directory">>
               /\ content' = None /\ audio_path' = None /\ gv_frames' = None
               /\ written' = {}]_vars

C2_Witness ==
    /\ pc = "raised"
    /\ raisedBy = Some(<<"generate_video_frames", "OSError">>)
    /\ exc = "OSError"
    /\ <<output_dir[1], "project_info.json">> \in written
    /\ <<output_dir[1], "narration.mp3">> \in written
    /\ <<output_dir[1], "frames", 0>> \in written

IsMalformed(resp) ==
    \/ resp.kind \in {"error", "text"}
    \/ resp.kind = "json" /\ ~({"script", "scenes"} \subseteq DOMAIN resp.obj)

\* C3: when the completion service errors or its reply is not JSON or lacks the
\* "script" or the "scenes" key, generate_script raises, it has been called
\* once, and the run writes no file.
C3_MalformedScriptRaises ==
    (response # None /\ IsMalformed(response[1])) =>
        /\ pc = "raised"
        /\ raisedBy # None
        /\ raisedBy[1][1] = "generate_script"
        /\ started = <<"create_output_directory", "generate_script">>
        /\ content = None
        /\ written = {}
        /\ infoWrites = 0

C3_Witness ==
    /\ response # None
    /\ response[1].kind = "json"
    /\ DOMAIN response[1].obj = {"script"}
    /\ pc = "raised"
    /\ exc = "KeyError"

\* C4: whenever generate_script has returned normally, the script is at most
\* 1000 characters long and the scene list is not empty.
C4_ScriptBounded ==
    content # None => (Script <= PromptMaxChars /\ Scenes # << >>)

AllScenesOk ==
    outcomes = [i \in 1..Len(Scenes) |-> "ok"]

\* C5: when the image service succeeded for every scene, the list that
\* generate_video_frames returned has one path per scene, the i-th being
\* frames/frame_<i>.png of the run's directory (i from 0), and that file is on
\* disk and holds the image generated for scene i.
C5_FramesMatchScenes ==
    (gv_frames # None /\ AllScenesOk) =>
        /\ Len(gv_frames[1]) = Len(Scenes)
        /\ \A i \in 1..Len(Scenes) :
             /\ gv_frames[1][i] = <<output_dir[1], "frames", i - 1>>
             /\ gv_frames[1][i] \in DOMAIN files
             /\ files[gv_frames[1][i]] = <<"image", Scenes[i]>>

C5_Witness ==
    /\ gv_frames # None
    /\ AllScenesOk
    /\ Len(gv_frames[1]) = 2
    /\ Scenes = <<"s2", "s1">>
    /\ pc = "create_video"

\* C6: the frames recorded as generated are those of scenes 0..j-1, each on
\* disk with its scene's image; the scenes sent to the image service are a
\* prefix of the scene list; and when scene k fails, generate_video_frames
\* raises without returning a list, k is the last scene requested, no file of a
\* later scene is written, and the frames of the scenes before k are on disk.
C6_FramesArePrefix ==
    content # None =>
        /\ Len(frames) <= Len(Scenes)
        /\ \A i \in 1..Len(frames) :
             /\ frames[i] = <<output_dir[1], "frames", i - 1>>
             /\ frames[i] \in DOMAIN files
             /\ files[frames[i]] = <<"image", Scenes[i]>>
        /\ requested = { i - 1 : i \in 1..Len(outcomes) }
        /\ \A i \in 1..Len(outcomes) : outcomes[i] # "ok" => i = Len(outcomes)
        /\ (Len(outcomes) > 0 /\ outcomes[Len(outcomes)] # "ok") =>
             /\ pc = "raised"
             /\ raisedBy # None
             /\ raisedBy[1][1] = "generate_video_frames"
             /\ gv_frames = None
             /\ Len(frames) = Len(outcomes) - 1
             /\ \A i \in Len(outcomes)..Len(Scenes) :
                  <<output_dir[1], "frames", i>> \notin written

C6_Witness ==
    /\ pc = "raised"
    /\ content # None
    /\ Len(Scenes) = 2
    /\ outcomes = <<"ok", "run_error">>
    /\ frames = << <<output_dir[1], "frames", 0>> >>
    /\ <<output_dir[1], "frames", 0>> \in DOMAIN files

\* C7: any two distinct runs obtain different output directories.
C7_DirsUnique ==
    \A i, j \in 1..Len(dirLog) : i # j => dirLog[i] # dirLog[j]

\* C8: when generate_video returns normally, the run's directory
\* <timestamp>_<sanitized topic> holds narration.mp3, frames/frame_<i>.png for
\* every scene i, final_video.mp4 and a project_info.json that the run wrote
\* exactly once and that records the topic, the script and the scenes that
\* generate_script returned.
C8_ArtifactsOnReturn ==
    pc = "returned" =>
        LET d == output_dir[1] IN
        /\ d[2] = SafeTopic(topic)
        /\ <<d, ".">> \in dirs
        /\ result = Some(<<d, "final_video.mp4">>)
        /\ {<<d, "narration.mp3">>, <<d, "final_video.mp4">>,
            <<d, "project_info.json">>} \subseteq DOMAIN files
        /\ \A i \in 1..Len(Scenes) : <<d, "frames", i - 1>> \in DOMAIN files
        /\ infoWrites = 1
        /\ \E timestamp \in 0..MaxClock :
             files[<<d, "project_info.json">>] =
                 <<"info", topic, timestamp, Script, Scenes>>

C8_Witness ==
    /\ pc = "returned"
    /\ runNo = 2
    /\ dirLog[1] = dirLog[2]
    /\ Len(Scenes) = 2
    /\ topic = <<"a", " ">>

\* C9: with either credential absent or empty the process raises at start-up
\* and goes no further: no directory is created, no file is written and no
\* stage is started.
C9_MissingCredentialStops ==
    (\/ env.OPENAI_API_KEY \in {"absent", "empty"}
     \/ env.REPLICATE_API_TOKEN \in {"absent", "empty"}) =>
        /\ pc \in {"boot", "crashed"}
        /\ pc = "crashed" => exc = "ValueError"
        /\ runNo = 0
        /\ dirs = {}
        /\ files = << >>
        /\ started = << >>

C9_Witness ==
    /\ env.OPENAI_API_KEY = "set"
    /\ env.REPLICATE_API_TOKEN = "empty"
    /\ pc = "crashed"
    /\ exc = "ValueError"

\* C10: once create_video has finished, no media resource it opened is still
\* open.
C10_AllReleased ==
    (RunFinished /\ InSeq("create_video", started)) => open = {}

====
